---------------------------- MODULE Spec2Model ----------------------------
(***************************************************************************)
(* ConfigExtractor: plugin discovery (ConfigExtractor.__init__), dispatch  *)
(* (ConfigExtractor.run_parsers), normalisation (ConfigExtractor.finalize) *)
(* and the CAPE adapter's run, as a state machine.                         *)
(*                                                                         *)
(* Strings that the code inspects (names matched by a block regex, URIs    *)
(* and protocols inspected by finalize) are sequences of one-character     *)
(* strings, so that prefix tests and concatenation are computed.           *)
(***************************************************************************)
EXTENDS Integers, Sequences, FiniteSets, TLC

\* Largest number of rules one extract_yara_from_module call returns.
MaxRules == 1

\* Longest uri (before normalisation) fed to finalize in SpecFin.
MaxUriLen == 3

\* An optional value (a missing attribute or dict key): << >> or <<v>>.
None == << >>
Some(v) == <<v>>

-----------------------------------------------------------------------------
(* Strings *)

\* str.startswith(prefix)
startswith(s, prefix) ==
    /\ Len(prefix) <= Len(s)
    /\ \A i \in 1..Len(prefix) : s[i] = prefix[i]

\* regex.compile('|'.join(parser_blocklist)) if parser_blocklist else None,
\* then `block_regex and block_regex.match(name)`. Patterns are literals;
\* Pattern.match anchors at the start of the name only.
block_match(parser_blocklist, name) ==
    /\ parser_blocklist # << >>
    /\ \E i \in DOMAIN parser_blocklist : startswith(name, parser_blocklist[i])

-----------------------------------------------------------------------------
(* The plugin roots on disk *)

\* Candidates: a loaded module, and the classes found in it by
\* inspect.getmembers. `name` is __name__; `module` is __module__, which a
\* module object does not have.
ModA == [id |-> "mod_a", kind |-> "module", name |-> <<"a">>, module |-> None]
ModB == [id |-> "mod_b", kind |-> "module", name |-> <<"b">>, module |-> None]
A1 == [id |-> "A1", kind |-> "class", name |-> <<"A", "1">>, module |-> Some(<<"a">>)]
A2 == [id |-> "A2", kind |-> "class", name |-> <<"A", "2">>, module |-> Some(<<"a">>)]
B1 == [id |-> "B1", kind |-> "class", name |-> <<"B", "1">>, module |-> Some(<<"b">>)]

Candidates == {ModA, ModB, A1, A2, B1}
CandIds == {c.id : c \in Candidates}
ById(i) == CHOOSE c \in Candidates : c.id = i

\* What pkgutil.walk_packages yields under each root, in order.
\* kind: "pkg" (ispkg), "setup" (name ends with .setup), "notpy" (a non-Python
\* file of the same stem exists), "plain" (inspected).
\* candidates: [module] + the module's classes, in getmembers (name) order.
Roots ==
    << << [kind |-> "plain", candidates |-> <<ModA, A1, A2>>],
          [kind |-> "setup", candidates |-> << >>] >>,
       << [kind |-> "pkg", candidates |-> << >>],
          [kind |-> "plain", candidates |-> <<ModB, B1>>],
          [kind |-> "notpy", candidates |-> << >>] >> >>

\* PARSER_FRAMEWORKS, in the iteration order of FRAMEWORK_LIBRARY_MAPPING.
PARSER_FRAMEWORKS == <<"MACO", "MWCP", "CAPE">>
FrameworkNames == {PARSER_FRAMEWORKS[i] : i \in DOMAIN PARSER_FRAMEWORKS}

\* Block lists a caller passes (to the constructor, or to run_parsers).
Blocklists == { << >>, << <<"B">>, <<"A", "2">> >> }

-----------------------------------------------------------------------------
(* Adapter contract during discovery *)

\* CAPE.validate: hasattr(module, 'extract_config').
CAPE_validate == {"True", "False"}

\* validate of the MACO and MWCP adapters: may also raise.
Framework_validate == {"True", "False", "Raise"}

\* fw_class.validate(member)
validate(fw) == IF fw = "CAPE" THEN CAPE_validate ELSE Framework_validate

\* fw_class.extract_yara_from_module(member, yara_rule_names): raises, or
\* returns a list of 0..MaxRules rule texts.
extract_yara_from_module ==
    {[raised |-> TRUE, rules |-> 0]}
        \cup {[raised |-> FALSE, rules |-> n] : n \in 0..MaxRules}

\* The rules one extraction returns; each carries the metadata the dispatch
\* reads back: parser_module, parser_framework, parser_name.
RulesFor(member, fw_name, n) ==
    [i \in 1..n |-> [parser_module |-> member.module[1],
                     parser_framework |-> fw_name,
                     parser_name |-> member.name,
                     idx |-> i]]

-----------------------------------------------------------------------------
VARIABLES
    pc,                 \* position in __init__ ("root", "unit", "member", "advance"),
                        \* then "ready" / "running" (inside run_parsers), or "aborted"
    parser_blocklist,   \* the constructor's parser_blocklist
    rootIdx, unitIdx, memIdx, fwIdx,   \* positions of the four nested loops
    parsers,            \* self.parsers: __module__ -> member
    standalone_parsers, \* self.standalone_parsers: framework -> set of members
    yara_rules,         \* yara_rules, then the source of self.yara
    tried,              \* adapters offered the current candidate so far: <<fw, validated>>
    claimed,            \* ids of the candidates an adapter validated and the
                        \* block list let through (they reach line 119)
    call,               \* the current / most recent run_parsers call
    prev                \* the run_parsers call that returned before it

dvars == <<pc, parser_blocklist, rootIdx, unitIdx, memIdx, fwIdx, parsers,
           standalone_parsers, yara_rules, tried, claimed>>
vars == <<dvars, call, prev>>

NoCall == [status |-> "none"]

Init ==
    /\ pc = "root"
    /\ parser_blocklist \in Blocklists
    /\ rootIdx = 1 /\ unitIdx = 1 /\ memIdx = 1 /\ fwIdx = 1
    /\ parsers = << >>
    /\ standalone_parsers = [f \in FrameworkNames |-> {}]
    /\ yara_rules = << >>
    /\ tried = << >>
    /\ claimed = {}
    /\ call = NoCall
    /\ prev = NoCall

Range(f) == {f[x] : x \in DOMAIN f}

CurUnit == Roots[rootIdx][unitIdx]
CurMember == CurUnit.candidates[memIdx]

-----------------------------------------------------------------------------
(* Discovery: ConfigExtractor.__init__ *)

\* for parsers_dir in parsers_dirs: ... mod = importlib.import_module(foldername)
\* The import of the root's top-level package is outside any try.
LoadRoot ==
    /\ pc = "root"
    /\ rootIdx <= Len(Roots)
    /\ \E imported \in BOOLEAN :
         IF imported
         THEN pc' = "unit" /\ unitIdx' = 1
         ELSE pc' = "aborted" /\ UNCHANGED unitIdx
    /\ UNCHANGED <<parser_blocklist, rootIdx, memIdx, fwIdx, parsers,
                   standalone_parsers, yara_rules, tried, claimed, call, prev>>

\* One iteration of `for module_path, module_name, ispkg in walk_packages`,
\* up to the candidates list; the loop's exhaustion moves to the next root.
WalkUnit ==
    /\ pc = "unit"
    /\ IF unitIdx > Len(Roots[rootIdx])
       THEN /\ pc' = "root" /\ rootIdx' = rootIdx + 1
            /\ UNCHANGED <<unitIdx, memIdx, fwIdx>>
       ELSE IF CurUnit.kind # "plain"
       THEN \* ispkg / .setup / non-Python: continue
            /\ unitIdx' = unitIdx + 1
            /\ UNCHANGED <<pc, rootIdx, memIdx, fwIdx>>
       ELSE \E imported \in BOOLEAN :
              IF imported
              THEN /\ pc' = "member" /\ memIdx' = 1 /\ fwIdx' = 1
                   /\ UNCHANGED <<rootIdx, unitIdx>>
              ELSE \* except Exception: log, continue
                   /\ unitIdx' = unitIdx + 1
                   /\ UNCHANGED <<pc, rootIdx, memIdx, fwIdx>>
    /\ UNCHANGED <<parser_blocklist, parsers, standalone_parsers, yara_rules,
                   tried, claimed, call, prev>>

\* self.parsers[member.__module__] = member
RegistryPut(registry, member) ==
    (member.module[1] :> member) @@ registry

\* DiscoveryBlocked with the patterns not joined: only the first is compiled.
DiscoveryBlocked_FirstPatternOnly(blocklist, member) ==
    /\ blocklist # << >>
    /\ startswith(member.name, blocklist[1])

\* `block_regex and block_regex.match(member.__name__)` at discovery
DiscoveryBlocked(blocklist, member) == block_match(blocklist, member.name)

\* Inner-loop control after one adapter was tried: `break`, or the adapters
\* are exhausted, ends the candidate; otherwise the next adapter is tried.
AfterAdapter(break) ==
    IF break \/ fwIdx = Len(PARSER_FRAMEWORKS)
    THEN pc' = "advance" /\ UNCHANGED fwIdx
    ELSE pc' = "member" /\ fwIdx' = fwIdx + 1

\* One iteration of `for fw_name, fw_class in FRAMEWORK_LIBRARY_MAPPING.items()`
\* for the current candidate: the try body and its two except clauses.
TryAdapter ==
    /\ pc = "member"
    /\ LET member == CurMember
           fw_name == PARSER_FRAMEWORKS[fwIdx]
       IN \E v \in validate(fw_name) :
            /\ tried' = Append(tried, <<fw_name, v = "True">>)
            /\ IF v # "True"
               THEN \* validate false, or raised: except TypeError / Exception
                    /\ AfterAdapter(FALSE)
                    /\ UNCHANGED <<parsers, standalone_parsers, yara_rules,
                                   claimed>>
               ELSE IF DiscoveryBlocked(parser_blocklist, member)
               THEN \* continue: the next adapter is tried
                    /\ AfterAdapter(FALSE)
                    /\ UNCHANGED <<parsers, standalone_parsers, yara_rules,
                                   claimed>>
               ELSE IF member.module = None
               THEN \* member.__module__ raises AttributeError: except Exception
                    /\ claimed' = claimed \cup {member.id}
                    /\ AfterAdapter(FALSE)
                    /\ UNCHANGED <<parsers, standalone_parsers, yara_rules>>
               ELSE /\ parsers' = RegistryPut(parsers, member)
                    /\ claimed' = claimed \cup {member.id}
                    /\ \E x \in extract_yara_from_module :
                         IF x.raised
                         THEN \* except TypeError / Exception: next adapter
                              /\ AfterAdapter(FALSE)
                              /\ UNCHANGED <<standalone_parsers, yara_rules>>
                         ELSE IF x.rules = 0
                         THEN /\ standalone_parsers' =
                                   [standalone_parsers EXCEPT
                                      ![fw_name] = @ \cup {member}]
                              /\ UNCHANGED yara_rules
                              /\ AfterAdapter(TRUE)
                         ELSE /\ yara_rules' =
                                   yara_rules \o RulesFor(member, fw_name, x.rules)
                              /\ UNCHANGED standalone_parsers
                              /\ AfterAdapter(TRUE)
    /\ UNCHANGED <<parser_blocklist, rootIdx, unitIdx, memIdx, call, prev>>

\* `for member in candidates`: the next candidate, or past the last one the
\* next unit.
NextCandidate ==
    /\ pc = "advance"
    /\ tried' = << >>
    /\ fwIdx' = 1
    /\ IF memIdx = Len(CurUnit.candidates)
       THEN pc' = "unit" /\ unitIdx' = unitIdx + 1 /\ memIdx' = 1
       ELSE pc' = "member" /\ memIdx' = memIdx + 1 /\ UNCHANGED unitIdx
    /\ UNCHANGED <<parser_blocklist, rootIdx, parsers, standalone_parsers,
                   yara_rules, claimed, call, prev>>

\* self.yara = yara.compile(source='\n'.join(yara_rules)): raises on a
\* source that does not compile.
Compile ==
    /\ pc = "root"
    /\ rootIdx > Len(Roots)
    /\ \E compiled \in BOOLEAN :
         pc' = IF compiled THEN "ready" ELSE "aborted"
    /\ UNCHANGED <<parser_blocklist, rootIdx, unitIdx, memIdx, fwIdx, parsers,
                   standalone_parsers, yara_rules, tried, claimed, call, prev>>

-----------------------------------------------------------------------------
(* Samples and parser output *)

\* A sample is what the dispatch can observe of it: whether it can be read,
\* and which parsers' rule patterns occur in its bytes.
Unreadable == [id |-> "unreadable", readable |-> FALSE, markers |-> {}]
ZeroByte == [id |-> "zero-byte", readable |-> TRUE, markers |-> {}]
Marked == [id |-> "marked", readable |-> TRUE, markers |-> {A1.name, A2.name}]
Samples == {Unreadable, ZeroByte, Marked}

\* self.yara.match(sample): one match per rule whose pattern occurs.
yara_match(rules, sample) ==
    SelectSeq(rules, LAMBDA r : r.parser_name \in sample.markers)

\* What one parser invocation does: raises, returns nothing, or returns output.
Outcomes == {"raise", "empty", "out"}

\* A network connection as a parser reports it.
Conn(protocol, uri) == [protocol |-> protocol, uri |-> uri]

\* The http list a MACO / MWCP parser reports for a sample.
RawHttp(parser) ==
    IF parser.id = "A1" THEN Some(<< Conn(None, Some(<<"x">>)) >>)
    ELSE IF parser.id = "A2"
    THEN Some(<< Conn(Some(<<"h">>), Some(<<"h", "://", "x">>)),
                 Conn(Some(<<"f">>), Some(<<"x">>)) >>)
    ELSE None

\* Framework.get_name(parser): the display name results are keyed by.
get_name(parser) == parser.name

-----------------------------------------------------------------------------
(* ConfigExtractor.finalize *)

\* finalize_conn without the startswith test: the uri is always prefixed.
finalize_conn_AlwaysPrefix(network_conn) ==
    LET protocol == IF network_conn.protocol = None
                    THEN <<"h">> ELSE network_conn.protocol[1]
        uri == network_conn.uri
    IN IF uri # None /\ uri[1] # << >>
       THEN Conn(Some(protocol), Some(protocol \o <<"://">> \o uri[1]))
       ELSE Conn(Some(protocol), uri)

\* One entry of config['http']: setdefault('protocol', 'http'), then the uri
\* is prefixed unless it is empty/missing or starts with the protocol.
finalize_conn(network_conn) ==
    LET protocol == IF network_conn.protocol = None
                    THEN <<"h">> ELSE network_conn.protocol[1]
        uri == network_conn.uri
    IN IF uri # None /\ uri[1] # << >> /\ ~startswith(uri[1], protocol)
       THEN Conn(Some(protocol), Some(protocol \o <<"://">> \o uri[1]))
       ELSE Conn(Some(protocol), uri)

\* config = config.get('config', {}); for network_conn in config.get('http', [])
finalize_record(config) ==
    IF config.config = None \/ config.config[1].http = None
    THEN config
    ELSE LET http == config.config[1].http[1]
         IN [config EXCEPT !.config =
               Some([config.config[1] EXCEPT !.http =
                  Some([i \in DOMAIN http |-> finalize_conn(http[i])])])]

\* for config in results.values(): ...   (in place)
finalize(results) ==
    [n \in DOMAIN results |-> finalize_record(results[n])]

-----------------------------------------------------------------------------
(* Framework.run *)

RECURSIVE CAPE_run_loop(_, _, _, _)
\* `for parser, yara_matches in parsers.items()` with the try / except body:
\* todo is what is left of the batch, acc the results and the invocations so far.
CAPE_run_loop(todo, parsers_, outcome, acc) ==
    IF todo = {} THEN acc
    ELSE LET p == CHOOSE q \in todo : TRUE
             parser == ById(p)
             parser_name == get_name(parser)
             count == [acc.invoked EXCEPT ![p] = @ + 1]
         IN CAPE_run_loop(todo \ {p}, parsers_, outcome,
              IF outcome[p] = "out"
              THEN [results |->
                      (parser_name :>
                         [author |-> parser.id, description |-> "",
                          config |-> Some([family |-> parser_name, http |-> None])])
                      @@ acc.results,
                    invoked |-> count]
              ELSE \* falsy result, or except Exception: no entry
                   [results |-> acc.results, invoked |-> count])

\* CAPE.run invoking a parser once per yara match instead of once per parser.
CAPE_run_PerMatch(parsers_, outcome) ==
    [results |->
        [n \in {get_name(ById(p)) : p \in {q \in DOMAIN parsers_ :
                    Len(parsers_[q]) > 0 /\ outcome[q] = "out"}} |->
            LET parser == CHOOSE c \in Candidates : get_name(c) = n
            IN [author |-> parser.id, description |-> "",
                config |-> Some([family |-> n, http |-> None])]],
     invoked |-> [p \in DOMAIN parsers_ |-> Len(parsers_[p])]]

\* CAPE.run(sample_path, parsers)
CAPE_run(parsers_, outcome) ==
    CAPE_run_loop(DOMAIN parsers_, parsers_, outcome,
                  [results |-> << >>, invoked |-> [p \in DOMAIN parsers_ |-> 0]])

\* run of the MACO and MWCP adapters: every parser of the batch once, a
\* raising or empty parser omitted, the output wrapped into a record.
Framework_run(parsers_, outcome) ==
    [results |->
        [n \in {get_name(ById(p)) : p \in {q \in DOMAIN parsers_ : outcome[q] = "out"}} |->
            LET parser == CHOOSE c \in Candidates : get_name(c) = n
            IN [author |-> parser.id, description |-> "",
                config |-> Some([family |-> n, http |-> RawHttp(parser)])]],
     invoked |-> [p \in DOMAIN parsers_ |-> 1]]

\* self.FRAMEWORK_LIBRARY_MAPPING[framework].run(sample, parser_list)
run(framework, parsers_, outcome) ==
    IF framework = "CAPE" THEN CAPE_run(parsers_, outcome)
    ELSE Framework_run(parsers_, outcome)

-----------------------------------------------------------------------------
(* Dispatch: ConfigExtractor.run_parsers *)

\* The yara-match loop, for one framework key: the members the matches
\* resolve to through self.parsers, the blocked ones dropped.
MatchedParsers(registry, matches, blocklist, framework) ==
    {registry[matches[i].parser_module].id : i \in
        {j \in DOMAIN matches :
            /\ matches[j].parser_framework = framework
            /\ ~block_match(blocklist, registry[matches[j].parser_module].name)}}

\* The standalone loop without its block-list test.
StandaloneToRun_Unchecked(standalone, blocklist, framework) ==
    {m.id : m \in standalone[framework]}

\* The standalone loop creating no batch entry.
StandaloneToRun_NoEntry(standalone, blocklist, framework) == {}

\* The standalone loop, for one framework key.
StandaloneToRun(standalone, blocklist, framework) ==
    {m.id : m \in {n \in standalone[framework] : ~block_match(blocklist, n.name)}}

\* parsers_to_run[framework][parser]: the matches appended for the parser
\* (`extend([])` adds nothing for a standalone parser).
MatchContext(registry, matches, framework, p) ==
    SelectSeq(matches, LAMBDA r : /\ r.parser_framework = framework
                                 /\ registry[r.parser_module].id = p)

\* parsers_to_run after both loops.
parsers_to_run(registry, standalone, matches, blocklist) ==
    [framework \in FrameworkNames |->
        [p \in MatchedParsers(registry, matches, blocklist, framework)
                 \cup StandaloneToRun(standalone, blocklist, framework) |->
            MatchContext(registry, matches, framework, p)]]

\* The merge without `if result:`: every framework that ran gets a key.
MergeResults_NoResultCheck(batch, ran) ==
    [framework \in {f \in FrameworkNames : DOMAIN batch[f] # {}} |->
        ran[framework].results]

\* `if parser_list:` ... `if result: results[framework] = result`
MergeResults(batch, ran) ==
    [framework \in {f \in FrameworkNames :
                       DOMAIN batch[f] # {} /\ DOMAIN ran[f].results # {}} |->
        ran[framework].results]

\* Lines 178-203 of run_parsers: the ruleset is evaluated, self.parsers
\* resolves every match (a missing key raises KeyError), the batch is built.
Dispatch ==
    /\ pc = "ready"
    /\ \E sample \in Samples, blocklist \in Blocklists :
         /\ prev' = IF call.status = "returned"
                    THEN [status |-> "returned", sample |-> call.sample,
                          blocklist |-> call.blocklist,
                          parsers_to_run |-> call.parsers_to_run]
                    ELSE prev
         /\ IF ~sample.readable
            THEN \* yara.match raises: the call is aborted
                 /\ call' = [status |-> "raised", sample |-> sample.id,
                             blocklist |-> blocklist]
                 /\ UNCHANGED pc
            ELSE LET matches == yara_match(yara_rules, sample) IN
                 IF \E i \in DOMAIN matches :
                        matches[i].parser_module \notin DOMAIN parsers
                 THEN /\ call' = [status |-> "raised", sample |-> sample.id,
                                  blocklist |-> blocklist]
                      /\ UNCHANGED pc
                 ELSE /\ call' = [status |-> "dispatched", sample |-> sample.id,
                                  blocklist |-> blocklist,
                                  parsers_to_run |->
                                     parsers_to_run(parsers, standalone_parsers,
                                                    matches, blocklist)]
                      /\ pc' = "running"
    /\ UNCHANGED <<parser_blocklist, rootIdx, unitIdx, memIdx, fwIdx, parsers,
                   standalone_parsers, yara_rules, tried, claimed>>

\* Lines 205-213 of run_parsers: every framework with a batch is run, its
\* result finalized and merged.
RunFrameworks ==
    /\ pc = "running"
    /\ \E maco \in [DOMAIN call.parsers_to_run["MACO"] -> Outcomes],
          mwcp \in [DOMAIN call.parsers_to_run["MWCP"] -> Outcomes],
          cape \in [DOMAIN call.parsers_to_run["CAPE"] -> Outcomes] :
            LET batch == call.parsers_to_run
                outcome == [MACO |-> maco, MWCP |-> mwcp, CAPE |-> cape]
                ran == [f \in FrameworkNames |->
                          LET r == run(f, batch[f], outcome[f])
                          IN [results |-> finalize(r.results), invoked |-> r.invoked]]
            IN call' = [status |-> "returned", sample |-> call.sample,
                        blocklist |-> call.blocklist,
                        parsers_to_run |-> batch,
                        outcome |-> outcome,
                        invoked |-> [f \in FrameworkNames |-> ran[f].invoked],
                        results |-> MergeResults(batch, ran)]
    /\ pc' = "ready"
    /\ UNCHANGED <<parser_blocklist, rootIdx, unitIdx, memIdx, fwIdx, parsers,
                   standalone_parsers, yara_rules, tried, claimed, prev>>

Next ==
    \/ LoadRoot \/ WalkUnit \/ TryAdapter \/ NextCandidate \/ Compile
    \/ Dispatch \/ RunFrameworks

Spec == Init /\ [][Next]_vars

-----------------------------------------------------------------------------
(* finalize on its own: a result mapping is normalised repeatedly *)

UriChars == {"h", "s", "x", "://"}

RECURSIVE StringsUpTo(_)
StringsUpTo(n) ==
    IF n = 0 THEN {<< >>}
    ELSE LET shorter == StringsUpTo(n - 1)
         IN shorter \cup {Append(t, c) : t \in shorter, c \in UriChars}

FinProtocols == {None, Some(<< >>), Some(<<"h">>), Some(<<"h", "s">>), Some(<<"f">>)}
FinUris == {None} \cup {Some(u) : u \in StringsUpTo(MaxUriLen)}
FinConns == {Conn(pr, u) : pr \in FinProtocols, u \in FinUris}

FinRecord(config) == [author |-> "x", description |-> "", config |-> config]

\* Result mappings: one record whose http list has one entry, optionally
\* beside a record without config, without http, or with an empty list.
FinInputs ==
    LET first == {FinRecord(Some([family |-> <<"p">>, http |-> Some(<<c>>)])) :
                     c \in FinConns}
        second == {FinRecord(None),
                   FinRecord(Some([family |-> <<"q">>, http |-> None])),
                   FinRecord(Some([family |-> <<"q">>, http |-> Some(<< >>)]))}
    IN {(<<"p">> :> r) : r \in first}
         \cup {(<<"p">> :> r) @@ (<<"q">> :> q) :
                  r \in {x \in first : x.config[1].http[1][1].protocol = None},
                  q \in second}

InitFin ==
    /\ pc = "finalize"
    /\ parser_blocklist = << >>
    /\ rootIdx = 1 /\ unitIdx = 1 /\ memIdx = 1 /\ fwIdx = 1
    /\ parsers = << >>
    /\ standalone_parsers = [f \in FrameworkNames |-> {}]
    /\ yara_rules = << >>
    /\ tried = << >>
    /\ claimed = {}
    /\ prev = NoCall
    /\ \E r \in FinInputs :
         call = [status |-> "finalize", applied |-> 0, input |-> r,
                 before |-> r, results |-> r]

\* self.finalize(result), on the mapping the previous application left.
Finalize ==
    /\ pc = "finalize"
    /\ call.applied < 2
    /\ call' = [call EXCEPT !.applied = @ + 1,
                            !.before = call.results,
                            !.results = finalize(call.results)]
    /\ UNCHANGED <<dvars, prev>>

NextFin == Finalize

SpecFin == InitFin /\ [][NextFin]_vars

-----------------------------------------------------------------------------
(* Properties *)

Built == call.status \in {"dispatched", "returned"}
Batch == call.parsers_to_run
SampleOf(id) == CHOOSE smp \in Samples : smp.id = id
HasRule(c) == \E i \in DOMAIN yara_rules : yara_rules[i].parser_name = c.name
ResultsOf(f) == IF f \in DOMAIN call.results THEN call.results[f] ELSE << >>

\* C1: after construction the registry has one entry per claimed, unblocked
\* candidate, and every such candidate is in it.
C1_RegistryHoldsEveryClaimed ==
    pc = "ready" =>
        /\ Cardinality(DOMAIN parsers) = Cardinality(claimed)
        /\ \A c \in claimed : ById(c) \in Range(parsers)

\* C2: a candidate whose name matches the constructor's block list is never
\* claimed (no extraction), never in the registry, never standalone, has no
\* rule, and is in no call's batch.
C2_BlockedNeverRegistered ==
    \A c \in Candidates :
        block_match(parser_blocklist, c.name) =>
            /\ c.id \notin claimed
            /\ c \notin Range(parsers)
            /\ \A f \in FrameworkNames : c \notin standalone_parsers[f]
            /\ ~HasRule(c)
            /\ Built => \A f \in FrameworkNames : c.id \notin DOMAIN Batch[f]

C2_Witness ==
    /\ call.status = "returned"
    /\ call.sample = "marked"
    /\ block_match(parser_blocklist, A2.name)
    /\ ~block_match(parser_blocklist, A1.name)
    /\ \E f \in FrameworkNames : "A1" \in DOMAIN Batch[f]

\* The batch of a call without the parsers a block list matches.
Unblocked(batch, blocklist) ==
    [f \in FrameworkNames |->
        [p \in {q \in DOMAIN batch[f] : ~block_match(blocklist, ById(q).name)} |->
            batch[f][p]]]

C3_AbsentWhenBlocked ==
    /\ Built =>
         \A f \in FrameworkNames : \A p \in DOMAIN Batch[f] :
             ~block_match(call.blocklist, ById(p).name)
    /\ call.status = "returned" =>
         \A f \in DOMAIN call.results : \A n \in DOMAIN call.results[f] :
             ~block_match(call.blocklist, n)

C3_LaterCallUnaffected ==
    (/\ Built /\ prev.status = "returned"
     /\ prev.sample = call.sample /\ call.blocklist = << >>)
        => prev.parsers_to_run = Unblocked(Batch, prev.blocklist)

C3_CallLeavesRegistry ==
    pc \in {"ready", "running"} =>
        UNCHANGED <<parsers, standalone_parsers, yara_rules>>

\* C3: a parser matched by a call's block list is absent from that call's
\* batch and result; a call changes neither the registry, the standalone sets
\* nor the rules; the next call on the same sample without a block list has
\* the batch of the blocked call plus the parsers that were blocked.
C3_PerCallBlockIsPerCall ==
    /\ [](C3_AbsentWhenBlocked /\ C3_LaterCallUnaffected)
    /\ [][C3_CallLeavesRegistry]_vars

C3_Witness ==
    /\ call.status = "returned" /\ call.blocklist = << >>
    /\ prev.status = "returned" /\ prev.sample = call.sample
    /\ \E f \in FrameworkNames : \E p \in DOMAIN Batch[f] :
          /\ block_match(prev.blocklist, ById(p).name)
          /\ p \notin DOMAIN prev.parsers_to_run[f]
          /\ call.outcome[f][p] = "out"

MatchResolvesTo(f, m, sample) ==
    \E i \in DOMAIN yara_rules :
        /\ yara_rules[i].parser_framework = f
        /\ yara_rules[i].parser_name \in sample.markers
        /\ parsers[yara_rules[i].parser_module] = m

C5_FinalizeIdempotent ==
    (call.status = "finalize" /\ call.applied = 2) => call.results = call.before

C5_Witness ==
    /\ call.status = "finalize" /\ call.applied = 2
    /\ LET in == call.input[<<"p">>].config[1].http[1][1]
           out == call.results[<<"p">>].config[1].http[1][1]
       IN /\ in.protocol = None
          /\ in.uri = Some(<<"x", "h">>)
          /\ out = Conn(Some(<<"h">>), Some(<<"h", "://", "x", "h">>))

\* C6: a framework key is in the result only if the framework's batch was
\* non-empty and one of its parsers returned output; with empty batches the
\* result is the empty mapping; only an unreadable sample makes a call raise.
C6_KeyOnlyWithOutput ==
    /\ call.status = "returned" =>
         /\ \A f \in DOMAIN call.results :
               /\ DOMAIN Batch[f] # {}
               /\ \E p \in DOMAIN Batch[f] : call.outcome[f][p] = "out"
               /\ DOMAIN call.results[f] # {}
         /\ (\A f \in FrameworkNames : DOMAIN Batch[f] = {}) => call.results = << >>
    /\ call.status = "raised" => ~SampleOf(call.sample).readable

C6_Witness ==
    /\ call.status = "returned"
    /\ \E f \in FrameworkNames :
          /\ DOMAIN Batch[f] # {}
          /\ f \notin DOMAIN call.results
    /\ \E f \in FrameworkNames : f \in DOMAIN call.results

\* C7 as stated: no adapter is tried for a candidate after one validated it.
C7_FirstValidatingAdapterWins ==
    \A i, j \in DOMAIN tried : i < j => ~tried[i][2]

\* C8 as stated: construction is aborted by the compilation only.
C8_OnlyCompileAbortsConstruction ==
    pc = "aborted" => rootIdx > Len(Roots)

\* C9: an adapter run invokes every parser of its batch once; a raising
\* parser has no record; a parser that returned output has its record under
\* its own name.
C9_EveryParserOnce ==
    call.status = "returned" =>
        \A f \in FrameworkNames : \A p \in DOMAIN Batch[f] :
            LET n == get_name(ById(p)) IN
            /\ call.invoked[f][p] = 1
            /\ call.outcome[f][p] = "raise" => n \notin DOMAIN ResultsOf(f)
            /\ call.outcome[f][p] = "out" =>
                  /\ n \in DOMAIN ResultsOf(f)
                  /\ ResultsOf(f)[n].author = p

C9_Witness ==
    /\ call.status = "returned"
    /\ \E p, q \in DOMAIN Batch["CAPE"] :
          /\ Len(Batch["CAPE"][p]) >= 2
          /\ call.outcome["CAPE"][p] = "raise"
          /\ call.outcome["CAPE"][q] = "out"
          /\ get_name(ById(q)) \in DOMAIN ResultsOf("CAPE")

\* C10 as stated: after construction every registered parser has a rule or is
\* in exactly one standalone set, not both and not neither.
C10_RegisteredIsDispatchable ==
    pc = "ready" =>
        \A m \in DOMAIN parsers :
            LET c == parsers[m]
                sets == {f \in FrameworkNames : c \in standalone_parsers[f]}
            IN \/ HasRule(c) /\ sets = {}
               \/ ~HasRule(c) /\ Cardinality(sets) = 1

=============================================================================
